---- MODULE Spec2Model ----
(***************************************************************************)
(* State-machine model of the top-level controller `App` of the AI Stock   *)
(* Analyst client: the query session (query, stocks, sources, loading,     *)
(* error, view), the watchlist and its mirror in localStorage.             *)
(*                                                                         *)
(* The child components (SearchForm, StockCard) and the service client     *)
(* (fetchPromisingStocks) are collaborators: a child may invoke a callback *)
(* it was handed whenever App renders it, and the service call resolves or *)
(* rejects with any result.                                                *)
(***************************************************************************)
EXTENDS Integers, Sequences, FiniteSets, TLC

VARIABLES
    query,      \* useState<string>            (line 10)
    stocks,     \* useState<Stock[]>           (line 11)
    sources,    \* useState<Source[]>          (line 12)
    loading,    \* useState<boolean>           (line 13)
    error,      \* useState<string | null>     (line 14)
    watchlist,  \* useState<Stock[]>           (line 15)
    view,       \* useState<'search'|'watchlist'> (line 16)
    storage,    \* localStorage item 'stockWatchlist' (string | null)
    pc,         \* position of the component in its life cycle
    queued,     \* state update queued by the hydrate effect, applied at the next render
    inFlight,   \* number of fetchPromisingStocks promises not yet settled
    calls,      \* number of invocations of fetchPromisingStocks so far
    accepted,   \* number of non-blank submissions so far
    writeOk,    \* outcome of the most recent localStorage.setItem
    fails,      \* number of setItem calls that threw so far
    boot,       \* what the page looked like when it was (re)loaded; the stored item
                \* it found is kept while the startup runs
    last        \* the handler that ran last, with its arguments

vars == <<query, stocks, sources, loading, error, watchlist, view, storage, pc,
          queued, inFlight, calls, accepted, writeOk, fails, boot, last>>

session == <<query, stocks, sources, loading, error, view>>

(***************************************************************************)
(* Bounds of the model.                                                    *)
(***************************************************************************)
MaxCalls == 2
MaxRestarts == 1
MaxWriteFailures == 1

(***************************************************************************)
(* Data: types.ts                                                          *)
(***************************************************************************)
Tickers == {"NVDA", "AAPL"}

Company(ticker, name) ==
    [ticker |-> ticker, companyName |-> name,
     growthPotential |-> "high", publicSentiment |-> "positive"]

\* two stocks that differ only outside the ticker, and one with another ticker
Stock == {Company("NVDA", "x"), Company("NVDA", "y"), Company("AAPL", "x")}

Source == [uri : {"https://x"}, title : {"Y"}]

\* string | null
Null == [isNull |-> TRUE, text |-> <<>>]
Str(s) == [isNull |-> FALSE, text |-> s]

\* JavaScript truthiness of a (string | null): null and "" are falsy
Truthy(v) == ~v.isNull /\ v.text # <<>>

(***************************************************************************)
(* Query text.  A query is a sequence of characters; " " stands for the    *)
(* white space that String.prototype.trim removes.                         *)
(***************************************************************************)
WhiteSpace == {" "}
\* texts the user may type: empty, white space only, words separated by white space
Queries == {<<>>, <<" ", " ">>, <<"a", " ", "a">>}

RECURSIVE TrimStart(_)
TrimStart(q) ==
    IF q # <<>> /\ Head(q) \in WhiteSpace THEN TrimStart(Tail(q)) ELSE q

RECURSIVE TrimEnd(_)
TrimEnd(q) ==
    IF q # <<>> /\ q[Len(q)] \in WhiteSpace
    THEN TrimEnd(SubSeq(q, 1, Len(q) - 1)) ELSE q

\* currentQuery.trim()
Trim(q) == TrimEnd(TrimStart(q))

\* useState<string>('AI technology stocks'): a non-blank text
InitialQuery == <<"a", " ", "a">>

\* exampleQueries: literal texts without leading or trailing white space
exampleQueries == {q \in Queries : q # <<>> /\ Trim(q) = q}

(***************************************************************************)
(* JSON.stringify / JSON.parse on the values the watchlist can hold, at    *)
(* the level of JSON tokens.                                               *)
(***************************************************************************)
P(c) == [k |-> "punct", v |-> c]
S(s) == [k |-> "string", v |-> s]
LitNull == [k |-> "literal", v |-> "null"]

StringifyStock(s) ==
    << P("{"), S("ticker"), P(":"), S(s.ticker),
       P(","), S("companyName"), P(":"), S(s.companyName),
       P(","), S("growthPotential"), P(":"), S(s.growthPotential),
       P(","), S("publicSentiment"), P(":"), S(s.publicSentiment), P("}") >>

RECURSIVE StringifyElements(_)
StringifyElements(wl) ==
    IF wl = <<>> THEN <<>>
    ELSE StringifyStock(Head(wl))
         \o (IF Len(wl) > 1 THEN <<P(",")>> ELSE <<>>)
         \o StringifyElements(Tail(wl))

\* JSON.stringify(watchlist)
Stringify(wl) == <<P("[")>> \o StringifyElements(wl) \o <<P("]")>>

StockTokens == 17

\* the tokens from position i on spell one Stock object
StockAt(toks, i) ==
    /\ i + StockTokens - 1 <= Len(toks)
    /\ LET t(j) == toks[i + j - 1] IN
       /\ t(1) = P("{")  /\ t(2) = S("ticker")           /\ t(3) = P(":")
       /\ t(4).k = "string"
       /\ t(5) = P(",")  /\ t(6) = S("companyName")      /\ t(7) = P(":")
       /\ t(8).k = "string"
       /\ t(9) = P(",")  /\ t(10) = S("growthPotential") /\ t(11) = P(":")
       /\ t(12).k = "string"
       /\ t(13) = P(",") /\ t(14) = S("publicSentiment") /\ t(15) = P(":")
       /\ t(16).k = "string"
       /\ t(17) = P("}")

ReadStock(toks, i) ==
    [ticker |-> toks[i + 3].v, companyName |-> toks[i + 7].v,
     growthPotential |-> toks[i + 11].v, publicSentiment |-> toks[i + 15].v]

SyntaxError == [ok |-> FALSE, kind |-> "none", items |-> <<>>]
Parsed(kind, items) == [ok |-> TRUE, kind |-> kind, items |-> items]

RECURSIVE ParseElements(_, _, _)
ParseElements(toks, i, acc) ==
    IF ~StockAt(toks, i) THEN SyntaxError
    ELSE LET j == i + StockTokens
             items == Append(acc, ReadStock(toks, i))
         IN  IF j > Len(toks) THEN SyntaxError
             ELSE IF toks[j] = P("]")
                  THEN (IF j = Len(toks) THEN Parsed("array", items) ELSE SyntaxError)
             ELSE IF toks[j] = P(",") THEN ParseElements(toks, j + 1, items)
             ELSE SyntaxError

\* JSON.parse(savedWatchlist): an array of stocks, the literal null, or a SyntaxError
Parse(toks) ==
    IF toks = <<LitNull>> THEN Parsed("null", <<>>)
    ELSE IF toks = <<P("["), P("]")>> THEN Parsed("array", <<>>)
    ELSE IF Len(toks) >= 2 /\ toks[1] = P("[") THEN ParseElements(toks, 2, <<>>)
    ELSE SyntaxError

(***************************************************************************)
(* Pure parts of the handlers.                                             *)
(***************************************************************************)
\* prev.some(s => s.ticker === ticker)
Some(wl, ticker) == \E i \in 1..Len(wl) : wl[i].ticker = ticker

\* isStockInWatchlist (lines 79-81)
isStockInWatchlist(wl, ticker) == Some(wl, ticker)

\* the membership test negated by mistake
AddToWatchlist_Inverted(prev, stock) ==
    IF ~Some(prev, stock.ticker) THEN prev ELSE Append(prev, stock)

\* the updater of handleAddToWatchlist (lines 69-72)
AddToWatchlist(prev, stock) ==
    IF Some(prev, stock.ticker) THEN prev ELSE Append(prev, stock)

\* prev.filter(s => s.ticker !== ticker)
RECURSIVE Filter(_, _)
Filter(wl, ticker) ==
    IF wl = <<>> THEN <<>>
    ELSE IF Head(wl).ticker # ticker
         THEN <<Head(wl)>> \o Filter(Tail(wl), ticker)
         ELSE Filter(Tail(wl), ticker)

\* the filter keeping the matching entries instead of the others
RemoveFromWatchlist_Inverted(prev, ticker) ==
    SelectSeq(prev, LAMBDA s : s.ticker = ticker)

\* the updater of handleRemoveFromWatchlist (line 76)
RemoveFromWatchlist(prev, ticker) == Filter(prev, ticker)

\* the test without the trim: !currentQuery
IsBlank_NoTrim(q) == q = <<>>

\* !currentQuery.trim() (line 38)
IsBlank(q) == Trim(q) = <<>>

ValidationMessage == <<"Please enter a topic to search for.">>
UnknownMessage == <<"An unknown error occurred.">>

\* what a rejected service call throws: an Error with a message, or any other value
Rejections == {[isError |-> TRUE, message |-> "timeout"],
               [isError |-> FALSE, message |-> "timeout"]}

\* the catch block of handleSubmit (lines 52-57)
CatchMessage(err) ==
    IF err.isError
    THEN <<"Failed to fetch stock data: ", err.message, ". Please try again.">>
    ELSE UnknownMessage

\* what a service call can resolve with
Results ==
    {[stocks |-> <<>>, sources |-> <<>>]}
        \cup {[stocks |-> <<s>>, sources |-> <<r>>] : s \in Stock, r \in Source}

\* the elements of a list
Elems(l) == {l[i] : i \in 1..Len(l)}

\* the stocks App renders a StockCard for (lines 148-199)
Cards ==
    IF loading THEN {}
    ELSE IF view = "search" THEN Elems(stocks)
    ELSE Elems(watchlist)

(***************************************************************************)
(* The record of the handler that ran last.                                *)
(***************************************************************************)
Ran(op) == [op |-> op, ticker |-> "", name |-> "", had |-> FALSE, from |-> "",
            stocks |-> <<>>, sources |-> <<>>,
            err |-> [isError |-> FALSE, message |-> ""]]

(***************************************************************************)
(* What localStorage may hold when the page is first loaded: nothing, the  *)
(* empty string, text that is not JSON, the JSON literal null, or the JSON *)
(* of a list of stocks (written by an earlier session or by anyone else    *)
(* with access to the origin's storage).                                   *)
(***************************************************************************)
StoredLists ==
    { <<>>,
      <<Company("NVDA", "x")>>,
      <<Company("NVDA", "x"), Company("AAPL", "x")>>,
      <<Company("AAPL", "x"), Company("NVDA", "y")>>,
      <<Company("NVDA", "x"), Company("NVDA", "y")>> }
StoredValues ==
    {Null, Str(<<>>), Str(<<P("[")>>), Str(<<LitNull>>)}
        \cup {Str(Stringify(w)) : w \in StoredLists}

NoUpdate == [has |-> FALSE, kind |-> "none", items |-> <<>>]

Init ==
    /\ query = InitialQuery
    /\ stocks = <<>>
    /\ sources = <<>>
    /\ loading = FALSE
    /\ error = Null
    /\ watchlist = <<>>
    /\ view = "search"
    /\ storage \in StoredValues
    /\ pc = "mounted"
    /\ queued = NoUpdate
    /\ inFlight = 0
    /\ calls = 0
    /\ accepted = 0
    /\ writeOk = TRUE
    /\ fails = 0
    /\ boot = [restarts |-> 0, wl |-> <<>>, clean |-> FALSE, read |-> FALSE,
               stored |-> storage]
    /\ last = Ran("init")

(***************************************************************************)
(* The persist effect (lines 29-35): setItem either stores the JSON text   *)
(* of the watchlist or throws (quota, storage disabled), which is caught   *)
(* and logged.                                                             *)
(***************************************************************************)
\* the effect writing the watchlist of the render before (a stale closure)
Persist_Stale(wl) ==
    \E ok \in BOOLEAN :
        /\ ok \/ fails < MaxWriteFailures
        /\ storage' = IF ok THEN Str(Stringify(watchlist)) ELSE storage
        /\ writeOk' = ok
        /\ fails' = IF ok THEN fails ELSE fails + 1

Persist(wl) ==
    \E ok \in BOOLEAN :
        /\ ok \/ fails < MaxWriteFailures
        /\ storage' = IF ok THEN Str(Stringify(wl)) ELSE storage
        /\ writeOk' = ok
        /\ fails' = IF ok THEN fails ELSE fails + 1

(***************************************************************************)
(* Mount.  After the first render React runs the two effects in order:     *)
(* the hydrate effect (lines 18-27) reads storage and queues               *)
(* setWatchlist(parsed); the persist effect (lines 29-35) then runs with   *)
(* the watchlist of the first render; the queued update is rendered next   *)
(* and, the watchlist being a new array, the persist effect runs again.    *)
(***************************************************************************)
\* the parsed value never handed to setWatchlist
HydrateEffect_NoSet ==
    /\ pc = "mounted"
    /\ \E readOk \in BOOLEAN : boot' = [boot EXCEPT !.read = readOk]
    /\ queued' = NoUpdate
    /\ pc' = "hydrated"
    /\ last' = Ran("hydrate")
    /\ UNCHANGED <<session, watchlist, storage, inFlight, calls, accepted, writeOk, fails>>

HydrateEffect ==
    /\ pc = "mounted"
    /\ \E readOk \in BOOLEAN :
        /\ boot' = [boot EXCEPT !.read = readOk]
        /\ queued' =
             IF readOk /\ Truthy(storage) /\ Parse(storage.text).ok
             THEN [has |-> TRUE, kind |-> Parse(storage.text).kind,
                   items |-> Parse(storage.text).items]
             ELSE NoUpdate
    /\ pc' = "hydrated"
    /\ last' = Ran("hydrate")
    /\ UNCHANGED <<session, watchlist, storage, inFlight, calls, accepted, writeOk, fails>>

MountPersistEffect ==
    /\ pc = "hydrated"
    /\ Persist(watchlist)
    /\ pc' = IF queued.has THEN "rerender" ELSE "ready"
    /\ boot' = IF queued.has THEN boot ELSE [boot EXCEPT !.stored = Null]
    /\ last' = Ran("persist")
    /\ UNCHANGED <<session, watchlist, queued, inFlight, calls, accepted>>

\* watchlist.length (line 116) throws a TypeError when the hydrated value is null:
\* the render fails and React unmounts the application
Rerender ==
    /\ pc = "rerender"
    /\ queued' = NoUpdate
    /\ last' = Ran("rerender")
    /\ IF queued.kind = "array"
       THEN /\ watchlist' = queued.items
            /\ Persist(queued.items)
            /\ pc' = "ready"
       ELSE /\ pc' = "crashed"
            /\ UNCHANGED <<watchlist, storage, writeOk, fails>>
    /\ boot' = [boot EXCEPT !.stored = Null]
    /\ UNCHANGED <<session, inFlight, calls, accepted>>

(***************************************************************************)
(* handleSubmit (lines 37-61), up to the await.                            *)
(***************************************************************************)
\* the results cleared by a refused submission
handleSubmit_BlankClears(currentQuery) ==
    IF IsBlank(currentQuery)
    THEN /\ error' = Str(ValidationMessage)
         /\ stocks' = <<>>
         /\ sources' = <<>>
         /\ UNCHANGED <<view, loading, inFlight, calls, accepted>>
    ELSE /\ calls < MaxCalls
         /\ view' = "search"
         /\ loading' = TRUE
         /\ error' = Null
         /\ stocks' = <<>>
         /\ sources' = <<>>
         /\ inFlight' = inFlight + 1
         /\ calls' = calls + 1
         /\ accepted' = accepted + 1

\* the results of the search before kept while the new one loads
handleSubmit_NoReset(currentQuery) ==
    IF IsBlank(currentQuery)
    THEN /\ error' = Str(ValidationMessage)
         /\ UNCHANGED <<view, loading, stocks, sources, inFlight, calls, accepted>>
    ELSE /\ calls < MaxCalls
         /\ view' = "search"
         /\ loading' = TRUE
         /\ error' = Null
         /\ inFlight' = inFlight + 1
         /\ calls' = calls + 1
         /\ accepted' = accepted + 1
         /\ UNCHANGED <<stocks, sources>>

handleSubmit(currentQuery) ==
    IF IsBlank(currentQuery)
    THEN /\ error' = Str(ValidationMessage)
         /\ UNCHANGED <<view, loading, stocks, sources, inFlight, calls, accepted>>
    ELSE /\ calls < MaxCalls
         /\ view' = "search"
         /\ loading' = TRUE
         /\ error' = Null
         /\ stocks' = <<>>
         /\ sources' = <<>>
         /\ inFlight' = inFlight + 1
         /\ calls' = calls + 1
         /\ accepted' = accepted + 1

\* SearchForm, rendered in the search view (lines 124-127): typing calls setQuery
SetQuery(text) ==
    /\ pc = "ready"
    /\ view = "search"
    /\ query' = text
    /\ last' = Ran("setQuery")
    /\ UNCHANGED <<stocks, sources, loading, error, view, watchlist, storage, pc,
                   queued, inFlight, calls, accepted, writeOk, fails, boot>>

\* a submission that also empties the watchlist
FormSubmit_ResetsWatchlist ==
    /\ pc = "ready"
    /\ view = "search"
    /\ handleSubmit(query)
    /\ watchlist' = <<>>
    /\ last' = Ran("submit")
    /\ UNCHANGED <<query, storage, pc, queued, writeOk, fails, boot>>

\* SearchForm: onSubmit={() => handleSubmit(query)} (line 127)
FormSubmit ==
    /\ pc = "ready"
    /\ view = "search"
    /\ handleSubmit(query)
    /\ last' = Ran("submit")
    /\ UNCHANGED <<query, watchlist, storage, pc, queued, writeOk, fails, boot>>

\* handleExampleClick (lines 63-66); the buttons are disabled while loading (line 134)
handleExampleClick(exampleQuery) ==
    /\ pc = "ready"
    /\ view = "search"
    /\ ~loading
    /\ query' = exampleQuery
    /\ handleSubmit(exampleQuery)
    /\ last' = Ran("example")
    /\ UNCHANGED <<watchlist, storage, pc, queued, writeOk, fails, boot>>

(***************************************************************************)
(* handleSubmit after the await (lines 49-60): one pending call settles.   *)
(***************************************************************************)
Resolve(result) ==
    /\ pc = "ready"
    /\ inFlight > 0
    /\ stocks' = result.stocks
    /\ sources' = result.sources
    /\ loading' = FALSE
    /\ inFlight' = inFlight - 1
    /\ last' = [Ran("resolve") EXCEPT !.stocks = result.stocks,
                                      !.sources = result.sources]
    /\ UNCHANGED <<query, error, view, watchlist, storage, pc, queued, calls, accepted,
                   writeOk, fails, boot>>

\* the service called again when a call fails
Reject_Retry(err) ==
    /\ pc = "ready"
    /\ inFlight > 0
    /\ error' = Str(CatchMessage(err))
    /\ loading' = FALSE
    /\ IF calls < MaxCalls
       THEN calls' = calls + 1 /\ inFlight' = inFlight
       ELSE calls' = calls /\ inFlight' = inFlight - 1
    /\ last' = [Ran("reject") EXCEPT !.err = err]
    /\ UNCHANGED <<query, stocks, sources, view, watchlist, storage, pc, queued,
                   accepted, writeOk, fails, boot>>

\* setLoading(false) left out of the failure path
Reject_NoFinally(err) ==
    /\ pc = "ready"
    /\ inFlight > 0
    /\ error' = Str(CatchMessage(err))
    /\ inFlight' = inFlight - 1
    /\ last' = [Ran("reject") EXCEPT !.err = err]
    /\ UNCHANGED <<query, stocks, sources, loading, view, watchlist, storage, pc, queued,
                   calls, accepted, writeOk, fails, boot>>

Reject(err) ==
    /\ pc = "ready"
    /\ inFlight > 0
    /\ error' = Str(CatchMessage(err))
    /\ loading' = FALSE
    /\ inFlight' = inFlight - 1
    /\ last' = [Ran("reject") EXCEPT !.err = err]
    /\ UNCHANGED <<query, stocks, sources, view, watchlist, storage, pc, queued, calls,
                   accepted, writeOk, fails, boot>>

\* the two tab buttons (lines 103-121)
\* the results cleared when the view is switched
SetView_Clear(v) ==
    /\ pc = "ready"
    /\ view' = v
    /\ stocks' = <<>>
    /\ sources' = <<>>
    /\ last' = [Ran("setView") EXCEPT !.from = view]
    /\ UNCHANGED <<query, loading, error, watchlist, storage, pc,
                   queued, inFlight, calls, accepted, writeOk, fails, boot>>

\* the pending calls dropped when the view is switched
SetView_Abort(v) ==
    /\ pc = "ready"
    /\ view' = v
    /\ inFlight' = 0
    /\ last' = [Ran("setView") EXCEPT !.from = view]
    /\ UNCHANGED <<query, stocks, sources, loading, error, watchlist, storage, pc,
                   queued, calls, accepted, writeOk, fails, boot>>

SetView(v) ==
    /\ pc = "ready"
    /\ view' = v
    /\ last' = [Ran("setView") EXCEPT !.from = view]
    /\ UNCHANGED <<query, stocks, sources, loading, error, watchlist, storage, pc,
                   queued, inFlight, calls, accepted, writeOk, fails, boot>>

(***************************************************************************)
(* The watchlist handlers, invoked by a rendered StockCard with its stock. *)
(* An updater that returns prev itself causes no render and no effect; a   *)
(* new array is rendered and the persist effect runs.                      *)
(***************************************************************************)
\* the mutation rolled back when the write fails
handleAddToWatchlist_Rollback(stock) ==
    /\ pc = "ready"
    /\ stock \in Cards
    /\ LET next == AddToWatchlist(watchlist, stock) IN
       IF next = watchlist
       THEN UNCHANGED <<watchlist, storage, writeOk, fails>>
       ELSE /\ Persist(next)
            /\ watchlist' = IF writeOk' THEN next ELSE watchlist
    /\ last' = [Ran("add") EXCEPT !.ticker = stock.ticker,
                                  !.name = stock.companyName,
                                  !.had = Some(watchlist, stock.ticker)]
    /\ UNCHANGED <<session, pc, queued, inFlight, calls, accepted, boot>>

handleAddToWatchlist(stock) ==
    /\ pc = "ready"
    /\ stock \in Cards
    /\ LET next == AddToWatchlist(watchlist, stock) IN
       /\ watchlist' = next
       /\ IF next = watchlist
          THEN UNCHANGED <<storage, writeOk, fails>>
          ELSE Persist(next)
    /\ last' = [Ran("add") EXCEPT !.ticker = stock.ticker,
                                  !.name = stock.companyName,
                                  !.had = Some(watchlist, stock.ticker)]
    /\ UNCHANGED <<session, pc, queued, inFlight, calls, accepted, boot>>

handleRemoveFromWatchlist(ticker) ==
    /\ pc = "ready"
    /\ \E s \in Cards : s.ticker = ticker
    /\ watchlist' = RemoveFromWatchlist(watchlist, ticker)
    /\ Persist(RemoveFromWatchlist(watchlist, ticker))
    /\ last' = [Ran("remove") EXCEPT !.ticker = ticker,
                                     !.had = Some(watchlist, ticker)]
    /\ UNCHANGED <<session, pc, queued, inFlight, calls, accepted, boot>>

(***************************************************************************)
(* The page is reloaded: the component state starts over, pending calls    *)
(* die with the old page, localStorage stays.                              *)
(***************************************************************************)
Restart ==
    /\ pc \in {"ready", "crashed"}
    /\ boot.restarts < MaxRestarts
    /\ query' = InitialQuery
    /\ stocks' = <<>>
    /\ sources' = <<>>
    /\ loading' = FALSE
    /\ error' = Null
    /\ watchlist' = <<>>
    /\ view' = "search"
    /\ pc' = "mounted"
    /\ queued' = NoUpdate
    /\ inFlight' = 0
    /\ boot' = [restarts |-> boot.restarts + 1, wl |-> watchlist,
                clean |-> writeOk /\ pc = "ready", read |-> FALSE,
                stored |-> storage]
    /\ last' = Ran("restart")
    /\ UNCHANGED <<storage, calls, accepted, writeOk, fails>>

Next ==
    \/ HydrateEffect
    \/ MountPersistEffect
    \/ Rerender
    \/ \E text \in Queries : SetQuery(text)
    \/ FormSubmit
    \/ \E ex \in exampleQueries : handleExampleClick(ex)
    \/ \E result \in Results : Resolve(result)
    \/ \E err \in Rejections : Reject(err)
    \/ \E v \in {"search", "watchlist"} : SetView(v)
    \/ \E stock \in Stock : handleAddToWatchlist(stock)
    \/ \E ticker \in Tickers : handleRemoveFromWatchlist(ticker)

\* one page session
Spec == Init /\ [][Next]_vars

\* one service call settles
Settle ==
    \/ \E result \in Results : Resolve(result)
    \/ \E err \in Rejections : Reject(err)

\* one page session in which every service call eventually completes
LiveSpec == Init /\ [][Next]_vars /\ WF_vars(Settle)

\* page sessions separated by reloads, from a browser that never ran the application
InitFresh == Init /\ storage = Null

NextReload == Next \/ Restart

SpecReload == InitFresh /\ [][NextReload]_vars

TypeOK ==
    /\ query \in Queries
    /\ loading \in BOOLEAN
    /\ view \in {"search", "watchlist"}
    /\ pc \in {"mounted", "hydrated", "rerender", "ready", "crashed"}
    /\ inFlight \in 0..MaxCalls
    /\ calls \in 0..MaxCalls

(***************************************************************************)
(* Vocabulary of the properties.                                           *)
(***************************************************************************)
\* the number of entries of wl with the given ticker
Count(wl, ticker) == Cardinality({i \in 1..Len(wl) : wl[i].ticker = ticker})

\* a text that is empty or holds white space only
AllWhiteSpace(q) == \A i \in 1..Len(q) : q[i] \in WhiteSpace

(***************************************************************************)
(* C1: in every reachable state the in-memory watchlist holds no two       *)
(* entries with the same ticker, whatever value was hydrated and whatever  *)
(* adds and removes followed.                                              *)
(***************************************************************************)
C1_UniqueTickers ==
    \A i, j \in 1..Len(watchlist) :
        watchlist[i].ticker = watchlist[j].ticker => i = j

(***************************************************************************)
(* C2: an add of a stock with ticker t that directly follows an add of a   *)
(* stock with ticker t leaves the watchlist unchanged, and the watchlist   *)
(* then holds exactly one entry with ticker t.                             *)
(***************************************************************************)
C2_SecondAddIsNoOp ==
    [][ (last.op = "add" /\ last'.op = "add" /\ last'.ticker = last.ticker)
          => (watchlist' = watchlist /\ Count(watchlist', last'.ticker) = 1) ]_vars

(***************************************************************************)
(* C3: remove(t) of a ticker t that no entry of the watchlist has leaves   *)
(* the watchlist as it was: the same entries in the same order.            *)
(***************************************************************************)
C3_RemoveAbsentIsNoOp ==
    [][ (last'.op = "remove" /\ Count(watchlist, last'.ticker) = 0)
          => watchlist' = watchlist ]_vars

C3_Witness ==
    /\ last.op = "remove"
    /\ ~last.had
    /\ Len(watchlist) = 2

(***************************************************************************)
(* C4: contains(t) is true right after add(stock with ticker t) and false  *)
(* right after remove(t).                                                  *)
(***************************************************************************)
C4_ContainsAfterAddRemove ==
    /\ last.op = "add" => isStockInWatchlist(watchlist, last.ticker)
    /\ last.op = "remove" => ~isStockInWatchlist(watchlist, last.ticker)

C4_Witness ==
    /\ last.op = "remove"
    /\ last.had
    /\ watchlist # <<>>
    /\ ~isStockInWatchlist(watchlist, last.ticker)

(***************************************************************************)
(* C5: a submission of an empty or white-space-only query, in any state,   *)
(* makes no service call and sets the error to the validation message.     *)
(***************************************************************************)
C5_BlankSubmitRefused ==
    [][ (last'.op \in {"submit", "example"} /\ AllWhiteSpace(query'))
          => /\ calls' = calls
             /\ inFlight' = inFlight
             /\ error' = Str(<<"Please enter a topic to search for.">>) ]_vars

C5_Witness ==
    /\ last.op = "submit"
    /\ query = <<" ", " ">>
    /\ inFlight = 1
    /\ calls = 1
    /\ error = Str(<<"Please enter a topic to search for.">>)

(***************************************************************************)
(* C6: a settled call leaves loading cleared, and, every service call      *)
(* eventually completing, loading = true always leads to loading = false,  *)
(* whether the calls succeed or fail.                                      *)
(***************************************************************************)
C6_LoadingCleared ==
    /\ [][last'.op \in {"resolve", "reject"} => ~loading']_vars
    /\ loading ~> ~loading

C6_Witness ==
    /\ last.op = "reject"
    /\ ~loading
    /\ inFlight = 0
    /\ calls = 2

(***************************************************************************)
(* C7: in every reachable state with a pending service call the loading    *)
(* flag is true, also when a second submission was made while the first    *)
(* was pending.                                                            *)
(***************************************************************************)
C7_LoadingWhileInFlight == inFlight > 0 => loading

(***************************************************************************)
(* C8: after a call rejected with an Error of message m the error is       *)
(* 'Failed to fetch stock data: ' + m + '. Please try again.' and stocks   *)
(* is empty; after a rejection with another value the error is the generic *)
(* message.                                                                *)
(***************************************************************************)
C8_RejectState ==
    last.op = "reject" =>
        /\ error = IF last.err.isError
                   THEN Str(<<"Failed to fetch stock data: ", last.err.message,
                              ". Please try again.">>)
                   ELSE Str(<<"An unknown error occurred.">>)
        /\ stocks = <<>>

(***************************************************************************)
(* C9: after a call resolved with (S, R) the state has stocks = S,         *)
(* sources = R, loading = false and error = null.                          *)
(***************************************************************************)
C9_ResolveState ==
    last.op = "resolve" =>
        /\ stocks = last.stocks
        /\ sources = last.sources
        /\ ~loading
        /\ error = Null

(***************************************************************************)
(* C10: when the page is reloaded with the watchlist persisted (the last   *)
(* write did not fail) and the hydrate effect reads that data, the         *)
(* watchlist after startup equals the watchlist before the reload, entry   *)
(* by entry.                                                               *)
(***************************************************************************)
C10_RoundTrip ==
    (/\ pc = "ready"
     /\ last.op \in {"persist", "rerender"}
     /\ boot.restarts > 0
     /\ boot.clean
     /\ boot.read)
        => watchlist = boot.wl

C10_Witness ==
    /\ pc = "ready"
    /\ last.op = "rerender"
    /\ boot.restarts > 0
    /\ boot.clean
    /\ boot.read
    /\ boot.wl = <<Company("NVDA", "y"), Company("AAPL", "x")>>
    /\ watchlist = boot.wl

(***************************************************************************)
(* C11: after every add or remove the stored value is the serialization of *)
(* the whole in-memory watchlist.                                          *)
(***************************************************************************)
C11_StorageMirrorsMemory ==
    last.op \in {"add", "remove"} => storage = Str(Stringify(watchlist))

(***************************************************************************)
(* C11, amended: in every quiescent state whose most recent write to       *)
(* storage did not fail, the stored value is the serialization of the      *)
(* whole in-memory watchlist; a failed write leaves storage behind.        *)
(***************************************************************************)
C11_StorageMirrorsMemoryUnlessWriteFailed ==
    (pc = "ready" /\ writeOk) => storage = Str(Stringify(watchlist))

C11_Witness ==
    /\ pc = "ready"
    /\ last.op = "remove"
    /\ last.had
    /\ writeOk
    /\ fails = 1
    /\ Len(watchlist) = 1
    /\ storage = Str(Stringify(watchlist))

\* the lists of at most two stocks
ShortLists ==
    {<<>>} \cup {<<s>> : s \in Stock} \cup {<<s, t>> : s \in Stock, t \in Stock}

\* a stored item that is the JSON text of a list of stocks
IsWatchlistText(v) == \E w \in ShortLists : v = Str(Stringify(w))

\* a stored item that is not: malformed text, or JSON of something else
Corrupt(v) == ~v.isNull /\ ~IsWatchlistText(v)

\* the steps of the startup, and the step that ends it
StartingUp == pc \in {"mounted", "hydrated", "rerender"}
StartupEnds == pc \in {"hydrated", "rerender"} /\ pc' \in {"ready", "crashed"}

(***************************************************************************)
(* C12: when the hydrate effect cannot read storage, or reads malformed or *)
(* corrupt data, the startup ends with an empty watchlist, with no         *)
(* exception escaping it and with no error shown to the user.              *)
(***************************************************************************)
C12_CorruptDataIgnored ==
    [][ (StartupEnds /\ (~boot.read \/ Corrupt(boot.stored)))
          => (watchlist' = <<>> /\ pc' = "ready" /\ error' = Null) ]_vars

(***************************************************************************)
(* C13: an add or remove whose write to storage fails keeps the mutated    *)
(* watchlist in memory, sets no error and leaves the application running;  *)
(* adds and removes made after a failed write still take effect.           *)
(***************************************************************************)
C13_WriteFailureNonFatal ==
    /\ [][ (last'.op \in {"add", "remove"} /\ fails' = fails + 1)
             => /\ last'.op = "add" =>
                     watchlist' = Append(watchlist, Company(last'.ticker, last'.name))
                /\ last'.op = "remove" =>
                     /\ Count(watchlist', last'.ticker) = 0
                     /\ Len(watchlist') = Len(watchlist) - Count(watchlist, last'.ticker)
                /\ ~writeOk'
                /\ error' = error
                /\ pc' = "ready" ]_vars
    /\ [][ (pc = "ready" /\ ~writeOk /\ last'.op \in {"add", "remove"})
             => (isStockInWatchlist(watchlist', last'.ticker) <=> last'.op = "add") ]_vars

C13_Witness ==
    /\ last.op = "add"
    /\ ~last.had
    /\ ~writeOk
    /\ isStockInWatchlist(watchlist, last.ticker)
    /\ storage # Str(Stringify(watchlist))
    /\ error = Null

(***************************************************************************)
(* C14: switching the view while a call is pending does not abort the      *)
(* call; when the call resolves or rejects, in whichever view, it sets     *)
(* stocks and sources or the error, clears loading and leaves the view as  *)
(* it is.                                                                  *)
(***************************************************************************)
C14_ViewSwitchKeepsRequest ==
    /\ [][ last'.op = "setView" => inFlight' = inFlight ]_vars
    /\ [][ last'.op = "resolve"
             => /\ view' = view
                /\ inFlight' = inFlight - 1
                /\ stocks' = last'.stocks
                /\ sources' = last'.sources
                /\ ~loading' ]_vars
    /\ [][ last'.op = "reject"
             => /\ view' = view
                /\ inFlight' = inFlight - 1
                /\ error' = Str(CatchMessage(last'.err))
                /\ ~loading' ]_vars

C14_Witness ==
    /\ last.op = "resolve"
    /\ view = "watchlist"
    /\ stocks # <<>>
    /\ stocks = last.stocks
    /\ inFlight = 0
    /\ ~loading

(***************************************************************************)
(* C15: a switch of the view changes the view only: stocks, sources,       *)
(* error, loading, query and watchlist stay as they are, so that the       *)
(* results are there again on the return to the search view.               *)
(***************************************************************************)
C15_ViewSwitchFrame ==
    [][ last'.op = "setView"
          => /\ view' \in {"search", "watchlist"}
             /\ UNCHANGED <<stocks, sources, error, loading, query, watchlist>> ]_vars

C15_Witness ==
    /\ last.op = "setView"
    /\ last.from = "watchlist"
    /\ view = "search"
    /\ stocks # <<>>
    /\ sources # <<>>
    /\ watchlist # <<>>

(***************************************************************************)
(* C16: the service is called once for each non-blank submission and at no *)
(* other time: a failed call is not retried, and the number of calls made  *)
(* equals the number of non-blank submissions.                             *)
(***************************************************************************)
C16_NoRetry ==
    /\ [](calls = accepted)
    /\ [][ (last'.op \in {"submit", "example"} /\ ~AllWhiteSpace(query'))
             => calls' = calls + 1 ]_vars
    /\ [][ calls' # calls
             => (last'.op \in {"submit", "example"} /\ ~AllWhiteSpace(query')) ]_vars

C16_Witness ==
    /\ last.op = "reject"
    /\ error # Null
    /\ calls = 1
    /\ accepted = 1
    /\ inFlight = 0

(***************************************************************************)
(* C17: right after a non-blank submission is accepted, its call still     *)
(* pending, the state has loading = true, error = null, stocks = [] and    *)
(* sources = [], whatever the results or the error were before.            *)
(***************************************************************************)
C17_AcceptedSubmitState ==
    [][ (last'.op \in {"submit", "example"} /\ ~AllWhiteSpace(query'))
          => /\ loading'
             /\ error' = Null
             /\ stocks' = <<>>
             /\ sources' = <<>>
             /\ inFlight' > 0 ]_vars

C17_Witness ==
    /\ last.op = "submit"
    /\ ~AllWhiteSpace(query)
    /\ calls = 2
    /\ inFlight = 1
    /\ loading
    /\ stocks = <<>>
    /\ error = Null

(***************************************************************************)
(* C18: when storage holds the JSON text of a watchlist at the start, no   *)
(* step of the startup (the hydrate effect, the persist effect of the      *)
(* mount, the render of the hydrated list and its persist effect) leaves   *)
(* storage with another value, the empty watchlist included.               *)
(***************************************************************************)
C18_StartupKeepsStoredData ==
    [][ (StartingUp /\ IsWatchlistText(boot.stored)) => storage' = boot.stored ]_vars

(***************************************************************************)
(* C19: a refused submission of a blank query changes the error only:      *)
(* stocks, sources, loading, view, query and watchlist stay as they are,   *)
(* and so do the pending calls and the stored watchlist.                   *)
(***************************************************************************)
C19_BlankSubmitFrame ==
    [][ (last'.op \in {"submit", "example"} /\ AllWhiteSpace(query'))
          => UNCHANGED <<stocks, sources, loading, view, query, watchlist,
                         inFlight, storage>> ]_vars

C19_Witness ==
    /\ last.op = "submit"
    /\ AllWhiteSpace(query)
    /\ stocks # <<>>
    /\ sources # <<>>
    /\ watchlist # <<>>
    /\ error = Str(ValidationMessage)

(***************************************************************************)
(* C20: the watchlist and the query session are independent.  An add or a  *)
(* remove leaves query, stocks, sources, loading, error and view as they   *)
(* are; a submission, a resolution and a rejection leave the in-memory     *)
(* watchlist and the stored value as they are, in every interleaving.      *)
(***************************************************************************)
C20_WatchlistSessionIndependent ==
    /\ [][ last'.op \in {"add", "remove"}
             => UNCHANGED <<query, stocks, sources, loading, error, view>> ]_vars
    /\ [][ last'.op \in {"submit", "example", "resolve", "reject"}
             => UNCHANGED <<watchlist, storage>> ]_vars

C20_Witness ==
    /\ last.op = "resolve"
    /\ stocks # <<>>
    /\ Len(watchlist) = 2
    /\ watchlist[1].ticker # watchlist[2].ticker
    /\ storage = Str(Stringify(watchlist))

====
